---- MODULE Spec2Model ----
(***************************************************************************)
(* Authentication core of tgfinance: the JWT manager (pkg/auth), the       *)
(* password manager (pkg/auth), the authentication middleware chain        *)
(* (internal/middleware) with the logger it calls (pkg/logger), and the    *)
(* validation error aggregator (pkg/utils).                                *)
(*                                                                         *)
(* Eight specifications share the variables:                               *)
(*   SpecToken       the token service under a settable wall clock         *)
(*   SpecTwice       one token validated repeatedly as the clock moves     *)
(*   Spec            one request walking a chain of middleware             *)
(*   SpecConcurrent  two requests served by the same middleware            *)
(*   SpecSkip        requests without credentials probing the bypass list  *)
(*   SpecContext     the context getters called on a request context       *)
(*   SpecPassword    policy, hashing and scoring of a drawn password       *)
(*   SpecErrors      the validation error aggregator (pkg/utils)           *)
(***************************************************************************)
EXTENDS Integers, Sequences, FiniteSets, TLC

VARIABLES
    JWT_SECRET, \* the process environment's JWT_SECRET ("" when unset)
    now,        \* wall clock read by time.Now(), in ticks
    jwt,        \* the JWTManager: [secretKey, issuer]
    tok,        \* SpecToken: the token string in the client's hand
    origin,     \* SpecToken: how tok was obtained (history)
    res,        \* SpecToken: the last ValidateToken call, or NoCall
    alive,      \* Spec: FALSE once the process was aborted by a fatal error
    reqs,       \* Spec: the requests being served, by request id
    password,   \* SpecPassword: the password under test
    pwres,      \* SpecPassword: the last password operation and its result
    errors,     \* SpecErrors: a utils.ValidationErrors value
    errout,     \* SpecErrors: the last Error() or HasErrors() call on it
    ctxcall     \* SpecContext: a request context and the last getter call

vars == <<JWT_SECRET, now, jwt, tok, origin, res, alive, reqs, password, pwres, errors, errout, ctxcall>>

-----------------------------------------------------------------------------
(* Time.  The clock counts ticks; jwt.NumericDate keeps whole seconds.     *)

TicksPerSecond == 2
Epoch == 1000

Second == TicksPerSecond
Hour == 3600 * Second

\* auth_test.go:161  now.Add(24 * time.Hour)
AccessTTL == 24 * Hour
\* auth_test.go:182  now.Add(7 * 24 * time.Hour)
RefreshTTL == 7 * 24 * Hour

\* jwt.NewNumericDate: t.Truncate(TimePrecision), TimePrecision = time.Second
NewNumericDate(t) == t - (t % Second)

\* Offsets from Epoch at which the clock is read.
ClockOffsets ==
    {0, 1, Second, Second + 1,
     AccessTTL - Second, AccessTTL - 1, AccessTTL, AccessTTL + 1,
     AccessTTL + Second, AccessTTL + Second + 1,
     RefreshTTL - 1, RefreshTTL, RefreshTTL + 1, RefreshTTL + Second + 1}

Instants == {Epoch + o : o \in ClockOffsets}

-----------------------------------------------------------------------------
(* Identities.  A uuid.UUID value and its canonical text are different     *)
(* things: UUIDString is uuid.UUID.String / MarshalText, UUIDParse is      *)
(* uuid.Parse / UnmarshalText.                                             *)

UuidA == "uuid.UUID{a1}"
UuidB == "uuid.UUID{b2}"
UuidNil == "uuid.UUID{00}"
UUIDs == {UuidA, UuidB}

UUIDString(u) ==
    CASE u = UuidA -> "a1a1a1a1-0000-4000-8000-000000000001"
      [] u = UuidB -> "b2b2b2b2-0000-4000-8000-000000000002"
      [] OTHER     -> "00000000-0000-0000-0000-000000000000"

UUIDTexts == {UUIDString(u) : u \in UUIDs \cup {UuidNil}}

UUIDParseOk(s) == s \in UUIDTexts

UUIDParse(s) ==
    IF UUIDParseOk(s)
    THEN CHOOSE u \in UUIDs \cup {UuidNil} : UUIDString(u) = s
    ELSE UuidNil

\* Emails handed to GenerateToken.  The last one is a Go string that is not
\* valid UTF-8 (a lone byte 0xFF before the @).
BadUTF8Email == "<0xFF>@example.com"
ValidEmails == {"a@example.com", "b@example.com"}
Emails == ValidEmails \cup {BadUTF8Email}

\* encoding/json on a string: invalid bytes become U+FFFD; decoding gives the
\* coerced text back.
JSONString(s) == IF s = BadUTF8Email THEN "<U+FFFD>@example.com" ELSE s

-----------------------------------------------------------------------------
(* Tokens.  A token string is header.payload.signature; the record keeps   *)
(* the decoded header tag, the decoded payload and the signature bytes.     *)

DefaultSecret == "your-super-secret-jwt-key-change-in-production"
AttackerKey == "attacker-key"

\* Values of JWT_SECRET in the environment of the process: unset (Getenv
\* gives ""), set to the empty string, or configured.
JWTSecretEnv == {"", "test-secret"}

\* NewJWTManager, with what os.Getenv("JWT_SECRET") returns passed in.
NewJWTManager(getenv) ==
    LET secretKey == IF getenv = "" THEN DefaultSecret ELSE getenv
    IN  [secretKey |-> secretKey, issuer |-> "tgfinance"]

NoClaims ==
    [user_id |-> "", email |-> "", exp |-> 0, iat |-> 0, nbf |-> 0,
     iss |-> "", sub |-> ""]

\* HMAC over the signing input (header and payload) under a method and key.
SignHMAC(alg, key, claims) == [alg |-> alg, key |-> key, claims |-> claims]

NoSignature == SignHMAC("", "", NoClaims)

\* Strings that do not have the three-segment structure.
Garbage(s) == [shape |-> s, alg |-> "", claims |-> NoClaims, sig |-> NoSignature]

EmptyToken == Garbage("")

\* jwt.NewWithClaims(jwt.SigningMethodHS256, claims).SignedString(key)
SignedString(key, claims) ==
    [shape |-> "jwt", alg |-> "HS256", claims |-> claims,
     sig |-> SignHMAC("HS256", key, claims)]

MutGenerateTokenNoUserID(j, userID, email, t) ==
    SignedString(j.secretKey,
        [user_id |-> UUIDString(UuidNil),
         email   |-> JSONString(email),
         exp     |-> NewNumericDate(t + AccessTTL),
         iat     |-> NewNumericDate(t),
         nbf     |-> NewNumericDate(t),
         iss     |-> j.issuer,
         sub     |-> UUIDString(userID)])

MutGenerateTokenShortTTL(j, userID, email, t) ==
    SignedString(j.secretKey,
        [user_id |-> UUIDString(userID),
         email   |-> JSONString(email),
         exp     |-> NewNumericDate(t + AccessTTL - Second),
         iat     |-> NewNumericDate(t),
         nbf     |-> NewNumericDate(t),
         iss     |-> j.issuer,
         sub     |-> UUIDString(userID)])

\* JWTManager.GenerateToken at clock reading t
GenerateToken(j, userID, email, t) ==
    SignedString(j.secretKey,
        [user_id |-> UUIDString(userID),
         email   |-> JSONString(email),
         exp     |-> NewNumericDate(t + AccessTTL),
         iat     |-> NewNumericDate(t),
         nbf     |-> NewNumericDate(t),
         iss     |-> j.issuer,
         sub     |-> UUIDString(userID)])

\* JWTManager.GenerateRefreshToken at clock reading t (Email left empty)
GenerateRefreshToken(j, userID, t) ==
    SignedString(j.secretKey,
        [user_id |-> UUIDString(userID),
         email   |-> "",
         exp     |-> NewNumericDate(t + RefreshTTL),
         iat     |-> NewNumericDate(t),
         nbf     |-> NewNumericDate(t),
         iss     |-> j.issuer,
         sub     |-> UUIDString(userID)])

\* Signing methods the jwt library has registered, and the HMAC family.
HMACFamily == {"HS256", "HS384", "HS512"}
RegisteredMethods == HMACFamily \cup {"RS256", "none"}

NilClaims == [UserID |-> UuidNil, Email |-> "", ExpiresAt |-> 0,
              IssuedAt |-> 0, NotBefore |-> 0, Issuer |-> "", Subject |-> ""]

Fail(errs) == [ok |-> FALSE, claims |-> NilClaims, err |-> errs]

MutKeyfuncAnyMethod(alg) == TRUE

\* The Keyfunc of ValidateToken: only *jwt.SigningMethodHMAC gets the key.
KeyfuncOk(alg) == alg \in HMACFamily

\* jwt.Validator.Validate at clock reading t: exp by cmp.Before(exp), nbf by
\* !cmp.Before(nbf); iat is not verified by default.
ClaimErrors(c, t) ==
    (IF ~(t < c.exp) THEN {"token is expired"} ELSE {})
    \cup (IF t < c.nbf THEN {"token is not valid yet"} ELSE {})

MutValidateTokenOneError(j, t, at) ==
    IF \/ t.shape # "jwt"
       \/ ~UUIDParseOk(t.claims.user_id)
       \/ t.alg \notin RegisteredMethods
       \/ ~KeyfuncOk(t.alg)
       \/ t.sig # SignHMAC(t.alg, j.secretKey, t.claims)
       \/ ClaimErrors(t.claims, at) # {}
    THEN Fail({"invalid token"})
    ELSE [ok |-> TRUE,
          claims |-> [UserID    |-> UUIDParse(t.claims.user_id),
                      Email     |-> t.claims.email,
                      ExpiresAt |-> t.claims.exp,
                      IssuedAt  |-> t.claims.iat,
                      NotBefore |-> t.claims.nbf,
                      Issuer    |-> t.claims.iss,
                      Subject   |-> t.claims.sub],
          err |-> {}]

\* JWTManager.ValidateToken at clock reading t
ValidateToken(j, t, at) ==
    IF t.shape # "jwt" THEN Fail({"token is malformed"})
    ELSE IF ~UUIDParseOk(t.claims.user_id) THEN Fail({"token is malformed"})
    ELSE IF t.alg \notin RegisteredMethods
        THEN Fail({"token is unverifiable", "signing method (alg) is unavailable"})
    ELSE IF ~KeyfuncOk(t.alg)
        THEN Fail({"token is unverifiable", "unexpected signing method"})
    ELSE IF t.sig # SignHMAC(t.alg, j.secretKey, t.claims)
        THEN Fail({"token signature is invalid"})
    ELSE IF ClaimErrors(t.claims, at) # {}
        THEN Fail({"token has invalid claims"} \cup ClaimErrors(t.claims, at))
    ELSE [ok |-> TRUE,
          claims |-> [UserID    |-> UUIDParse(t.claims.user_id),
                      Email     |-> t.claims.email,
                      ExpiresAt |-> t.claims.exp,
                      IssuedAt  |-> t.claims.iat,
                      NotBefore |-> t.claims.nbf,
                      Issuer    |-> t.claims.iss,
                      Subject   |-> t.claims.sub],
          err |-> {}]

\* What a client can do to a token string it holds without the server key.
TamperKinds == {"alg:none", "alg:unsigned", "alg:HS384", "alg:RS256",
                "alg:unknown",
                "extend-exp", "resign-attacker", "truncate"}

Tamper(t, kind) ==
    CASE kind = "alg:none"    -> [t EXCEPT !.alg = "none"]
      [] kind = "alg:HS384"   -> [t EXCEPT !.alg = "HS384"]
      [] kind = "alg:unsigned" ->
            [t EXCEPT !.alg = "none", !.sig = NoSignature]
      [] kind = "alg:RS256"   -> [t EXCEPT !.alg = "RS256"]
      [] kind = "alg:unknown" -> [t EXCEPT !.alg = "XX000"]
      [] kind = "extend-exp"  -> [t EXCEPT !.claims.exp = @ + RefreshTTL]
      [] kind = "resign-attacker" ->
            [t EXCEPT !.sig = SignHMAC(t.alg, AttackerKey, t.claims)]
      [] OTHER -> Garbage("truncated")

-----------------------------------------------------------------------------
(* SpecToken: issue, tamper, move the clock, validate.                      *)

\* The last ValidateToken call (its clock reading and what it returned) and
\* the call before it on the same token.
NoPrev == [called |-> FALSE, at |-> 0, out |-> Fail({})]
NoCall == [called |-> FALSE, at |-> 0, out |-> Fail({}), prev |-> NoPrev]
NoOrigin == [op |-> "none", id |-> UuidNil, email |-> "", at |-> 0, tamper |-> "none"]

InitToken ==
    /\ now = Epoch
    /\ JWT_SECRET \in JWTSecretEnv
    /\ jwt = NewJWTManager(JWT_SECRET)
    /\ tok = EmptyToken
    /\ origin = NoOrigin
    /\ res = NoCall
    /\ alive = TRUE
    /\ reqs = <<>>
    /\ password = <<>>
    /\ pwres = <<>>
    /\ errors = <<>>
    /\ errout = <<>>
    /\ ctxcall = <<>>

DoGenerateToken ==
    \E u \in UUIDs, e \in Emails :
        /\ tok' = GenerateToken(jwt, u, e, now)
        /\ origin' = [op |-> "GenerateToken", id |-> u, email |-> e,
                      at |-> now, tamper |-> "none"]
        /\ res' = NoCall
        /\ UNCHANGED <<JWT_SECRET, now, jwt, alive, reqs, password, pwres, errors, errout, ctxcall>>

DoGenerateRefreshToken ==
    \E u \in UUIDs :
        /\ tok' = GenerateRefreshToken(jwt, u, now)
        /\ origin' = [op |-> "GenerateRefreshToken", id |-> u, email |-> "",
                      at |-> now, tamper |-> "none"]
        /\ res' = NoCall
        /\ UNCHANGED <<JWT_SECRET, now, jwt, alive, reqs, password, pwres, errors, errout, ctxcall>>

DoTamper ==
    \E k \in TamperKinds :
        /\ origin.op # "none"
        /\ origin.tamper = "none"
        /\ tok' = Tamper(tok, k)
        /\ origin' = [origin EXCEPT !.tamper = k]
        /\ res' = NoCall
        /\ UNCHANGED <<JWT_SECRET, now, jwt, alive, reqs, password, pwres, errors, errout, ctxcall>>

\* The wall clock is set (it is not monotonic): any instant of the model.
ClockSet ==
    \E t \in Instants :
        /\ t # now
        /\ now' = t
        /\ res' = NoCall
        /\ UNCHANGED <<JWT_SECRET, jwt, tok, origin, alive, reqs, password, pwres, errors, errout, ctxcall>>

MutDoValidateTokenRotatesKey ==
    /\ res' = [called |-> TRUE, at |-> now,
               out |-> ValidateToken(jwt, tok, now),
               prev |-> [called |-> res.called, at |-> res.at, out |-> res.out]]
    /\ jwt' = [jwt EXCEPT !.secretKey = AttackerKey]
    /\ UNCHANGED <<JWT_SECRET, now, tok, origin, alive, reqs, password, pwres, errors, errout, ctxcall>>

DoValidateToken ==
    /\ res' = [called |-> TRUE, at |-> now,
               out |-> ValidateToken(jwt, tok, now),
               prev |-> [called |-> res.called, at |-> res.at, out |-> res.out]]
    /\ UNCHANGED <<JWT_SECRET, now, jwt, tok, origin, alive, reqs, password, pwres, errors, errout, ctxcall>>

NextToken ==
    \/ DoGenerateToken
    \/ DoGenerateRefreshToken
    \/ DoTamper
    \/ ClockSet
    \/ DoValidateToken

SpecToken == InitToken /\ [][NextToken]_vars

-----------------------------------------------------------------------------
(* SpecTwice: one token, issued at Epoch and perhaps tampered with, is      *)
(* validated again and again while the clock moves between the calls.      *)

\* The token string a client holds, from how it came to be.
TokenOf(o) ==
    LET issued == IF o.op = "GenerateToken"
                  THEN GenerateToken(NewJWTManager(JWT_SECRET), o.id, o.email, o.at)
                  ELSE GenerateRefreshToken(NewJWTManager(JWT_SECRET), o.id, o.at)
    IN  IF o.op = "none" THEN EmptyToken
        ELSE IF o.tamper = "none" THEN issued
        ELSE Tamper(issued, o.tamper)

InitTwice ==
    /\ now = Epoch
    /\ JWT_SECRET \in JWTSecretEnv
    /\ jwt = NewJWTManager(JWT_SECRET)
    /\ origin \in
          {NoOrigin}
          \cup {[op |-> "GenerateToken", id |-> u, email |-> e, at |-> Epoch,
                 tamper |-> k] :
                    u \in UUIDs, e \in Emails, k \in {"none"} \cup TamperKinds}
          \cup {[op |-> "GenerateRefreshToken", id |-> u, email |-> "",
                 at |-> Epoch, tamper |-> "none"] : u \in UUIDs}
    /\ tok = TokenOf(origin)
    /\ res = NoCall
    /\ alive = TRUE
    /\ reqs = <<>>
    /\ password = <<>>
    /\ pwres = <<>>
    /\ errors = <<>>
    /\ errout = <<>>
    /\ ctxcall = <<>>

\* Time passes, or the clock is set back, between two calls.
ClockMoves ==
    \E t \in Instants :
        /\ t # now
        /\ now' = t
        /\ UNCHANGED <<JWT_SECRET, jwt, tok, origin, res, alive, reqs, password, pwres, errors, errout, ctxcall>>

NextTwice ==
    \/ ClockMoves
    \/ DoValidateToken

SpecTwice == InitTwice /\ [][NextTwice]_vars

-----------------------------------------------------------------------------
(* The logger (pkg/logger).  A call either returns or never does.           *)

Returns == "returns"
StackOverflow == "fatal error: stack overflow"

\* Logger.WithError: l.WithField(...) is the embedded logrus method.
LoggerWithError == Returns

\* Logger.WithFields: its body is l.WithFields(fields), and the selector
\* resolves to the method itself (depth 0), not to the embedded logrus one:
\* the call recurses without bound until the runtime aborts the process.
LoggerWithFields == StackOverflow

\* Logger.WithUser: return l.WithFields(...)
LoggerWithUser == LoggerWithFields

-----------------------------------------------------------------------------
(* Requests.  A URL path is kept as strings.Split(path, "/") gives it.      *)

PHealth == <<"", "health">>
PMetrics == <<"", "metrics">>
PLogin == <<"", "api", "v1", "auth", "login">>
PRegister == <<"", "api", "v1", "auth", "register">>
PRefresh == <<"", "api", "v1", "auth", "refresh">>
PHealthSub == <<"", "health", "live">>
PExpenses == <<"", "api", "v1", "expenses">>
PUsersOnly == <<"", "api", "v1", "users">>
PUserA == <<"", "api", "v1", "users", UUIDString(UuidA)>>
PUserBGoals == <<"", "api", "v1", "users", UUIDString(UuidB), "goals">>

Paths == {PHealth, PLogin, PHealthSub, PExpenses, PUsersOnly, PUserA, PUserBGoals}
Methods == {"GET", "POST", "OPTIONS"}

\* The skipPaths map of shouldSkipAuth: path -> allowed methods.
SkipPathKeys == {PHealth, PMetrics, PLogin, PRegister, PRefresh}
skipPaths ==
    [p \in SkipPathKeys |->
        IF p \in {PHealth, PMetrics} THEN <<"GET">> ELSE <<"POST">>]

MutShouldSkipAuthAnyMethod(path, method) ==
    \/ path \in DOMAIN skipPaths
    \/ method = "OPTIONS"

\* AuthMiddleware.shouldSkipAuth
shouldSkipAuth(path, method) ==
    \/ /\ path \in DOMAIN skipPaths
       /\ \E i \in 1..Len(skipPaths[path]) : skipPaths[path][i] = method
    \/ method = "OPTIONS"

\* An Authorization header value is prefix ++ token string; the missing header
\* reads as the empty string (http.Header.Get).
Header(prefix, t) == [prefix |-> prefix, token |-> t]
NoHeader == Header("", EmptyToken)
HeaderIsEmpty(h) == h.prefix = "" /\ h.token = EmptyToken

MutExtractTokenNoPrefixCheck(h) ==
    IF HeaderIsEmpty(h)
    THEN [ok |-> FALSE, token |-> EmptyToken, err |-> "authorization header is required"]
    ELSE IF h.token = EmptyToken
    THEN [ok |-> FALSE, token |-> EmptyToken, err |-> "token is empty"]
    ELSE [ok |-> TRUE, token |-> h.token, err |-> ""]

\* AuthMiddleware.extractToken
extractToken(h) ==
    IF HeaderIsEmpty(h)
    THEN [ok |-> FALSE, token |-> EmptyToken, err |-> "authorization header is required"]
    ELSE IF h.prefix # "Bearer "
    THEN [ok |-> FALSE, token |-> EmptyToken,
          err |-> "authorization header must start with 'Bearer '"]
    ELSE IF h.token = EmptyToken
    THEN [ok |-> FALSE, token |-> EmptyToken, err |-> "token is empty"]
    ELSE [ok |-> TRUE, token |-> h.token, err |-> ""]

\* Responses: status, Content-Type header, body {"error":{"code":..,"message":..}}
NoResponse == [status |-> 0, contentType |-> "", code |-> 0, message |-> ""]

\* AuthMiddleware.sendErrorResponse
sendErrorResponse(statusCode, message) ==
    [status |-> statusCode, contentType |-> "application/json",
     code |-> statusCode, message |-> message]

StatusUnauthorized == 401
StatusForbidden == 403

\* Context values carry their dynamic type: v.(string) panics on another one.
Nil == [type |-> "nil", val |-> ""]
StringValue(s) == [type |-> "string", val |-> s]
UUIDValue(u) == [type |-> "uuid.UUID", val |-> u]
IsString(v) == v.type = "string"

EmptyContext == [user_id |-> Nil, user_email |-> Nil, user_role |-> Nil]

\* The middleware a route can be wrapped in.
MwAuthenticate == [mw |-> "Authenticate", role |-> ""]
MwRequireRole(r) == [mw |-> "RequireRole", role |-> r]
MwRequireAdmin == [mw |-> "RequireAdmin", role |-> ""]
MwRequireUser == [mw |-> "RequireUser", role |-> ""]

Roles == {"user", "admin"}
Middlewares ==
    {MwAuthenticate, MwRequireAdmin, MwRequireUser} \cup {MwRequireRole(r) : r \in Roles}

MaxChainLen == 2

Chains == UNION {[1..n -> Middlewares] : n \in 0..MaxChainLen}

\* Terminal and running states of a request.
\*   running    inside the chain, about to enter chain[pos] (or the handler)
\*   responded  a middleware wrote an error response and returned
\*   handled    the business handler was called
\*   panic      a run-time panic unwound the handler goroutine
\*   fatal      an unrecoverable runtime error ended the process
NewRequest(path, method, auth, chain, ctx) ==
    [path |-> path, method |-> method, auth |-> auth, chain |-> chain,
     ctx0 |-> ctx, ctx |-> ctx, pos |-> 1, state |-> "running",
     resp |-> NoResponse, handlerCalls |-> 0, handlerCtx |-> EmptyContext]

CallNext(rq, ctx) == [rq EXCEPT !.ctx = ctx, !.pos = @ + 1]
Respond(rq, resp) == [rq EXCEPT !.state = "responded", !.resp = resp]
Panic(rq) == [rq EXCEPT !.state = "panic"]
Abort(rq) == [rq EXCEPT !.state = "fatal"]

\* The context Authenticate builds from validated claims.
AuthContext(claims) ==
    [user_id    |-> UUIDValue(claims.UserID),
     user_email |-> StringValue(claims.Email),
     user_role  |-> StringValue("user")]

MsgExtract == "Invalid or missing authorization token"
MsgValidate == "Invalid or expired token"

MutAuthenticateNamesExpiry(rq, j, t) ==
    IF shouldSkipAuth(rq.path, rq.method) THEN CallNext(rq, rq.ctx)
    ELSE LET ex == extractToken(rq.auth) IN
    IF ~ex.ok THEN
        Respond(rq, sendErrorResponse(StatusUnauthorized, MsgExtract))
    ELSE LET v == ValidateToken(j, ex.token, t) IN
    IF ~v.ok THEN
        IF "token is expired" \in v.err
        THEN Respond(rq, sendErrorResponse(StatusUnauthorized, "Token expired"))
        ELSE Respond(rq, sendErrorResponse(StatusUnauthorized, MsgValidate))
    ELSE
        IF LoggerWithUser # Returns THEN Abort(rq)
        ELSE CallNext(rq, AuthContext(v.claims))

MutAuthenticateOptionalOnBypass(rq, j, t) ==
    LET ex == extractToken(rq.auth)
        v == ValidateToken(j, ex.token, t)
    IN
    IF shouldSkipAuth(rq.path, rq.method) THEN
        IF ex.ok /\ v.ok THEN CallNext(rq, AuthContext(v.claims))
        ELSE CallNext(rq, rq.ctx)
    ELSE
    IF ~ex.ok THEN
        Respond(rq, sendErrorResponse(StatusUnauthorized, MsgExtract))
    ELSE
    IF ~v.ok THEN
        Respond(rq, sendErrorResponse(StatusUnauthorized, MsgValidate))
    ELSE
        IF LoggerWithUser # Returns THEN Abort(rq)
        ELSE CallNext(rq, AuthContext(v.claims))

\* AuthMiddleware.Authenticate: the handler it returns, on request rq at clock t
Authenticate(rq, j, t) ==
    IF shouldSkipAuth(rq.path, rq.method) THEN CallNext(rq, rq.ctx)
    ELSE LET ex == extractToken(rq.auth) IN
    IF ~ex.ok THEN
        IF LoggerWithError # Returns THEN Abort(rq)
        ELSE Respond(rq, sendErrorResponse(StatusUnauthorized, MsgExtract))
    ELSE LET v == ValidateToken(j, ex.token, t) IN
    IF ~v.ok THEN
        IF LoggerWithError # Returns THEN Abort(rq)
        ELSE Respond(rq, sendErrorResponse(StatusUnauthorized, MsgValidate))
    ELSE
        IF LoggerWithUser # Returns THEN Abort(rq)
        ELSE CallNext(rq, AuthContext(v.claims))

MutRequireRoleOpenOnMissing(rq, requiredRole) ==
    LET userRole == rq.ctx.user_role IN
    IF userRole = Nil THEN CallNext(rq, rq.ctx)
    ELSE IF ~IsString(userRole) THEN Panic(rq)
    ELSE IF userRole.val # requiredRole THEN
        IF LoggerWithFields # Returns THEN Abort(rq)
        ELSE Respond(rq, sendErrorResponse(StatusForbidden, "Insufficient permissions"))
    ELSE CallNext(rq, rq.ctx)

\* AuthMiddleware.RequireRole(requiredRole): the handler it returns
RequireRole(rq, requiredRole) ==
    LET userRole == rq.ctx.user_role IN
    IF userRole = Nil THEN
        Respond(rq, sendErrorResponse(StatusUnauthorized, "User role not found in context"))
    ELSE IF ~IsString(userRole) THEN Panic(rq)
    ELSE IF userRole.val # requiredRole THEN
        IF LoggerWithFields # Returns THEN Abort(rq)
        ELSE Respond(rq, sendErrorResponse(StatusForbidden, "Insufficient permissions"))
    ELSE CallNext(rq, rq.ctx)

\* AuthMiddleware.RequireAdmin
RequireAdmin(rq) == RequireRole(rq, "admin")

\* Indices i of pathParts with part == "users" && i+1 < len(pathParts)
UsersIndices(pathParts) ==
    {i \in 1..Len(pathParts) : pathParts[i] = "users" /\ i < Len(pathParts)}

FirstIndex(S) == CHOOSE i \in S : \A k \in S : i <= k

MutRequireUserOpenOnMissing(rq) ==
    LET userID == rq.ctx.user_id
        idx == UsersIndices(rq.path)
    IN
    IF userID = Nil \/ idx = {} THEN CallNext(rq, rq.ctx)
    ELSE IF ~IsString(userID) THEN Panic(rq)
    ELSE IF rq.path[FirstIndex(idx) + 1] # userID.val THEN
        IF LoggerWithFields # Returns THEN Abort(rq)
        ELSE Respond(rq, sendErrorResponse(StatusForbidden,
                                           "Cannot access another user's resources"))
    ELSE CallNext(rq, rq.ctx)

MutRequireUserAssertsFirst(rq) ==
    LET userID == rq.ctx.user_id
        idx == UsersIndices(rq.path)
    IN
    IF userID = Nil THEN
        Respond(rq, sendErrorResponse(StatusUnauthorized, "User ID not found in context"))
    ELSE IF ~IsString(userID) THEN Panic(rq)
    ELSE IF idx = {} THEN CallNext(rq, rq.ctx)
    ELSE IF rq.path[FirstIndex(idx) + 1] # userID.val THEN
        IF LoggerWithFields # Returns THEN Abort(rq)
        ELSE Respond(rq, sendErrorResponse(StatusForbidden,
                                           "Cannot access another user's resources"))
    ELSE CallNext(rq, rq.ctx)

\* AuthMiddleware.RequireUser: the handler it returns
RequireUser(rq) ==
    LET userID == rq.ctx.user_id
        idx == UsersIndices(rq.path)
    IN
    IF userID = Nil THEN
        Respond(rq, sendErrorResponse(StatusUnauthorized, "User ID not found in context"))
    ELSE IF idx = {} THEN CallNext(rq, rq.ctx)
    ELSE IF ~IsString(userID) THEN Panic(rq)
    ELSE IF rq.path[FirstIndex(idx) + 1] # userID.val THEN
        IF LoggerWithFields # Returns THEN Abort(rq)
        ELSE Respond(rq, sendErrorResponse(StatusForbidden,
                                           "Cannot access another user's resources"))
    ELSE CallNext(rq, rq.ctx)

\* The business handler at the end of the chain.
Handler(rq) ==
    [rq EXCEPT !.state = "handled", !.handlerCalls = @ + 1, !.handlerCtx = rq.ctx]

-----------------------------------------------------------------------------
(* Spec: requests drawn at Init walk their chains, one middleware a step.   *)

\* Tokens a client may present; issued half a second after Epoch.
IssueInstant == Epoch + 1
AccessA == GenerateToken(NewJWTManager(JWT_SECRET), UuidA, "a@example.com", IssueInstant)
AccessB == GenerateToken(NewJWTManager(JWT_SECRET), UuidB, "b@example.com", IssueInstant)
RefreshA == GenerateRefreshToken(NewJWTManager(JWT_SECRET), UuidA, IssueInstant)
FutureA == GenerateToken(NewJWTManager(JWT_SECRET), UuidA, "a@example.com", Epoch + AccessTTL)

BearerTokens ==
    {AccessA, AccessB, RefreshA, FutureA,
     Tamper(AccessA, "alg:none"), Tamper(AccessA, "resign-attacker"),
     Tamper(AccessA, "extend-exp"), Tamper(AccessA, "truncate")}

AuthHeaders ==
    {NoHeader,
     Header("Basic ", Garbage("dXNlcjpwdw==")),
     Header("Bearer", EmptyToken),
     Header("Bearer ", EmptyToken),
     Header("bearer ", AccessA),
     Header("", AccessA)}
    \cup {Header("Bearer ", t) : t \in BearerTokens}

\* Clock readings while requests are served: inside the access window of the
\* tokens above, and after it (inside the refresh window).
ServeInstants == {Epoch + Second, Epoch + AccessTTL + Second + 1}

\* Contexts a request can enter the chain with: the server's base context,
\* and contexts an outer layer has filled (ids as strings, or as Authenticate
\* stores them).
InitialContexts ==
    {EmptyContext,
     [user_id |-> StringValue(UUIDString(UuidA)),
      user_email |-> StringValue("a@example.com"),
      user_role |-> StringValue("user")],
     AuthContext([UserID |-> UuidA, Email |-> "a@example.com"])}

Requests ==
    {NewRequest(p, m, h, c, x) :
        p \in Paths, m \in Methods, h \in AuthHeaders, c \in Chains,
        x \in InitialContexts}

Running(r) == alive /\ reqs[r].state = "running"
AtMiddleware(r, mw) ==
    /\ Running(r)
    /\ reqs[r].pos <= Len(reqs[r].chain)
    /\ reqs[r].chain[reqs[r].pos].mw = mw

\* The effect of a handler's outcome on the process.
Apply(r, rq) ==
    /\ reqs' = [reqs EXCEPT ![r] = rq]
    /\ alive' = (rq.state # "fatal")
    /\ UNCHANGED <<JWT_SECRET, now, jwt, tok, origin, res, password, pwres, errors, errout, ctxcall>>

Init ==
    /\ now \in ServeInstants
    /\ JWT_SECRET \in JWTSecretEnv
    /\ jwt = NewJWTManager(JWT_SECRET)
    /\ tok = EmptyToken
    /\ origin = NoOrigin
    /\ res = NoCall
    /\ alive = TRUE
    /\ reqs \in [{1} -> Requests]
    /\ password = <<>>
    /\ pwres = <<>>
    /\ errors = <<>>
    /\ errout = <<>>
    /\ ctxcall = <<>>

MutServeAuthenticateSharedHeader(r) ==
    /\ AtMiddleware(r, "Authenticate")
    /\ Apply(r, [Authenticate([reqs[r] EXCEPT !.auth = reqs[1].auth], jwt, now)
                    EXCEPT !.auth = reqs[r].auth])

ServeAuthenticate(r) ==
    /\ AtMiddleware(r, "Authenticate")
    /\ Apply(r, Authenticate(reqs[r], jwt, now))

ServeRequireRole(r) ==
    /\ AtMiddleware(r, "RequireRole")
    /\ Apply(r, RequireRole(reqs[r], reqs[r].chain[reqs[r].pos].role))

ServeRequireAdmin(r) ==
    /\ AtMiddleware(r, "RequireAdmin")
    /\ Apply(r, RequireAdmin(reqs[r]))

ServeRequireUser(r) ==
    /\ AtMiddleware(r, "RequireUser")
    /\ Apply(r, RequireUser(reqs[r]))

ServeHandler(r) ==
    /\ Running(r)
    /\ reqs[r].pos = Len(reqs[r].chain) + 1
    /\ Apply(r, Handler(reqs[r]))

Next ==
    \/ \E r \in DOMAIN reqs : ServeAuthenticate(r)
    \/ \E r \in DOMAIN reqs : ServeRequireRole(r)
    \/ \E r \in DOMAIN reqs : ServeRequireAdmin(r)
    \/ \E r \in DOMAIN reqs : ServeRequireUser(r)
    \/ \E r \in DOMAIN reqs : ServeHandler(r)

Spec == Init /\ [][Next]_vars

-----------------------------------------------------------------------------
(* SpecConcurrent: two requests served by one AuthMiddleware, interleaved.   *)

\* Routes behind Authenticate, with and without a guard.
GuardedChains ==
    {<<MwAuthenticate>>, <<MwAuthenticate, MwRequireRole("admin")>>,
     <<MwAuthenticate, MwRequireAdmin>>, <<MwAuthenticate, MwRequireUser>>}

PairRequests ==
    {NewRequest(p, "GET", h, c, EmptyContext) :
        p \in {PHealth, PExpenses}, h \in AuthHeaders, c \in GuardedChains}

InitConcurrent ==
    /\ now \in ServeInstants
    /\ JWT_SECRET \in JWTSecretEnv
    /\ jwt = NewJWTManager(JWT_SECRET)
    /\ tok = EmptyToken
    /\ origin = NoOrigin
    /\ res = NoCall
    /\ alive = TRUE
    /\ reqs \in [{1, 2} -> PairRequests]
    /\ password = <<>>
    /\ pwres = <<>>
    /\ errors = <<>>
    /\ errout = <<>>
    /\ ctxcall = <<>>

SpecConcurrent == InitConcurrent /\ [][Next]_vars

-----------------------------------------------------------------------------
(* SpecSkip: requests without credentials on listed, extended, shortened    *)
(* and unrelated paths, with any method, enter Authenticate.                *)

SkipProbePaths ==
    SkipPathKeys \cup
    {PHealthSub, PExpenses,
     <<"", "health", "">>, <<"", "Health">>, <<"", "healthz">>, <<"", "">>,
     <<"", "api", "v1", "auth">>, <<"", "api", "v1", "auth", "login", "x">>,
     <<"", "v1", "auth", "login">>}
SkipProbeMethods == {"GET", "POST", "OPTIONS", "HEAD", "PUT", "get", "options"}

SkipRequests ==
    {NewRequest(p, m, NoHeader, <<MwAuthenticate>>, EmptyContext) :
        p \in SkipProbePaths, m \in SkipProbeMethods}

InitSkip ==
    /\ now \in ServeInstants
    /\ JWT_SECRET \in JWTSecretEnv
    /\ jwt = NewJWTManager(JWT_SECRET)
    /\ tok = EmptyToken
    /\ origin = NoOrigin
    /\ res = NoCall
    /\ alive = TRUE
    /\ reqs \in [{1} -> SkipRequests]
    /\ password = <<>>
    /\ pwres = <<>>
    /\ errors = <<>>
    /\ errout = <<>>
    /\ ctxcall = <<>>

NextSkip ==
    \/ \E r \in DOMAIN reqs : ServeAuthenticate(r)
    \/ \E r \in DOMAIN reqs : ServeHandler(r)

SpecSkip == InitSkip /\ [][NextSkip]_vars

-----------------------------------------------------------------------------
(* The password policy (pkg/auth/password.go).  A password is the sequence  *)
(* of its characters; len(password) in Go counts UTF-8 bytes.                *)

Superscript2 == "<U+00B2>"
EAcute == "<U+00E9>"

\* One character per class of the unicode package, and two that take two
\* bytes: U+00B2 (category No) and U+00E9 (category Ll).
Alphabet == <<"A", "a", "1", "!", "+", Superscript2, EAcute>>
Filler == " "

UnicodeIsUpper(c) == c = "A"
UnicodeIsLower(c) == c \in {"a", EAcute}
UnicodeIsDigit(c) == c = "1"
UnicodeIsNumber(c) == c \in {"1", Superscript2}
UnicodeIsPunct(c) == c = "!"
UnicodeIsSymbol(c) == c = "+"

UTF8Len(c) == IF c \in {Superscript2, EAcute} THEN 2 ELSE 1

\* len(password): the bytes of the UTF-8 encoding (1 to 4 for a character)
ByteLen(p) ==
    LET n(k) == Cardinality({i \in 1..Len(p) : UTF8Len(p[i]) = k})
    IN n(1) + 2 * n(2) + 3 * n(3) + 4 * n(4)

\* The case of "switch { case unicode.IsUpper(char): ... }" a character takes:
\* the first one whose condition holds.
SwitchCase(c) ==
    IF UnicodeIsUpper(c) THEN "hasUpper"
    ELSE IF UnicodeIsLower(c) THEN "hasLower"
    ELSE IF UnicodeIsNumber(c) THEN "hasNumber"
    ELSE IF UnicodeIsPunct(c) \/ UnicodeIsSymbol(c) THEN "hasSpecial"
    ELSE "none"

\* The flags after "for _, char := range password": a flag is set when some
\* character took its case.
ScanClasses(p) ==
    [flag \in {"hasUpper", "hasLower", "hasNumber", "hasSpecial"} |->
        \E i \in 1..Len(p) : SwitchCase(p[i]) = flag]

MinPasswordLen == 8
MaxPasswordLen == 128

ErrTooShort == "password must be at least 8 characters long"
ErrTooLong == "password must be less than 128 characters"
ErrNoUpper == "password must contain at least one uppercase letter"
ErrNoLower == "password must contain at least one lowercase letter"
ErrNoNumber == "password must contain at least one number"
ErrNoSpecial == "password must contain at least one special character"

\* A Go error value: nil, or errors.New(message)
NilError == ""

MutValidateNoMaxLength(p) ==
    IF ByteLen(p) < MinPasswordLen THEN ErrTooShort
    ELSE LET f == ScanClasses(p) IN
    IF ~f.hasUpper THEN ErrNoUpper
    ELSE IF ~f.hasLower THEN ErrNoLower
    ELSE IF ~f.hasNumber THEN ErrNoNumber
    ELSE IF ~f.hasSpecial THEN ErrNoSpecial
    ELSE NilError

MutValidateMaxExclusive(p) ==
    IF ByteLen(p) < MinPasswordLen THEN ErrTooShort
    ELSE IF ByteLen(p) >= MaxPasswordLen THEN ErrTooLong
    ELSE LET f == ScanClasses(p) IN
    IF ~f.hasUpper THEN ErrNoUpper
    ELSE IF ~f.hasLower THEN ErrNoLower
    ELSE IF ~f.hasNumber THEN ErrNoNumber
    ELSE IF ~f.hasSpecial THEN ErrNoSpecial
    ELSE NilError

\* PasswordManager.validatePasswordStrength
validatePasswordStrength(p) ==
    IF ByteLen(p) < MinPasswordLen THEN ErrTooShort
    ELSE IF ByteLen(p) > MaxPasswordLen THEN ErrTooLong
    ELSE LET f == ScanClasses(p) IN
    IF ~f.hasUpper THEN ErrNoUpper
    ELSE IF ~f.hasLower THEN ErrNoLower
    ELSE IF ~f.hasNumber THEN ErrNoNumber
    ELSE IF ~f.hasSpecial THEN ErrNoSpecial
    ELSE NilError

\* PasswordManager.IsPasswordValid
IsPasswordValid(p) == validatePasswordStrength(p)

MutStrengthNoMixedCaseBonus(p) ==
    LET f == ScanClasses(p) IN
      (IF ByteLen(p) >= 8 THEN 20 ELSE 0)
    + (IF ByteLen(p) >= 12 THEN 10 ELSE 0)
    + (IF ByteLen(p) >= 16 THEN 10 ELSE 0)
    + (IF f.hasUpper THEN 15 ELSE 0)
    + (IF f.hasLower THEN 15 ELSE 0)
    + (IF f.hasNumber THEN 15 ELSE 0)
    + (IF f.hasSpecial THEN 15 ELSE 0)

\* PasswordManager.GetPasswordStrength: the score is summed up and returned
\* as it is.
GetPasswordStrength(p) ==
    LET f == ScanClasses(p) IN
      (IF ByteLen(p) >= 8 THEN 20 ELSE 0)
    + (IF ByteLen(p) >= 12 THEN 10 ELSE 0)
    + (IF ByteLen(p) >= 16 THEN 10 ELSE 0)
    + (IF f.hasUpper THEN 15 ELSE 0)
    + (IF f.hasLower THEN 15 ELSE 0)
    + (IF f.hasNumber THEN 15 ELSE 0)
    + (IF f.hasSpecial THEN 15 ELSE 0)
    + (IF f.hasUpper /\ f.hasLower THEN 10 ELSE 0)

MutLabelStrictThresholds(p) ==
    LET score == GetPasswordStrength(p) IN
    IF score > 80 THEN "Very Strong"
    ELSE IF score > 60 THEN "Strong"
    ELSE IF score > 40 THEN "Medium"
    ELSE IF score > 20 THEN "Weak"
    ELSE "Very Weak"

\* PasswordManager.GetPasswordStrengthLabel
GetPasswordStrengthLabel(p) ==
    LET score == GetPasswordStrength(p) IN
    IF score >= 80 THEN "Very Strong"
    ELSE IF score >= 60 THEN "Strong"
    ELSE IF score >= 40 THEN "Medium"
    ELSE IF score >= 20 THEN "Weak"
    ELSE "Very Weak"

-----------------------------------------------------------------------------
(* bcrypt (golang.org/x/crypto v0.40.0) as HashPassword and VerifyPassword  *)
(* call it.  A hash string is a record of what its text encodes.            *)

BcryptDefaultCost == 10
BcryptMaxBytes == 72

ErrPasswordTooLong == "bcrypt: password length exceeds 72 bytes"
ErrMismatchedHashAndPassword ==
    "bcrypt: hashedPassword is not the hash of the given password"
ErrHashTooShort == "bcrypt: hashedSecret too short to be a bcrypted password"
ErrInvalidHashPrefix == "bcrypt: bcrypt hashes must start with '$'"

\* NewPasswordManager
NewPasswordManager == [cost |-> BcryptDefaultCost]

\* The first n bytes of the UTF-8 encoding of p: the characters that fit
\* whole, then the leading bytes of the character the limit cuts.
BytePrefix(p, n) ==
    LET k == Cardinality({i \in 1..Len(p) : ByteLen(SubSeq(p, 1, i)) <= n})
        whole == SubSeq(p, 1, k)
    IN  [chars |-> whole,
         cut |-> IF k < Len(p) /\ ByteLen(whole) < n
                 THEN <<p[k + 1], n - ByteLen(whole)>> ELSE <<>>]

\* The key bcrypt feeds to the Blowfish key schedule: the password and a
\* closing zero byte, read cyclically for 72 bytes.  A password shorter than
\* 72 bytes is in the key whole with its terminator; of a longer one only
\* the first 72 bytes are.  (The passwords of the model hold no zero byte.)
BcryptKey(p) ==
    [bytes |-> BytePrefix(p, BcryptMaxBytes),
     terminated |-> ByteLen(p) < BcryptMaxBytes]

\* The random 16-byte salt of a hash
Salts == {"salt1", "salt2"}

EmptyHash == [form |-> "empty", cost |-> 0, salt |-> "", key |-> <<>>]
BcryptHash(cost, salt, key) ==
    [form |-> "bcrypt", cost |-> cost, salt |-> salt, key |-> key]

\* Stored strings that are no bcrypt hash: the empty string, a string shorter
\* than a hash, a string of the length of a hash that does not start with '$'.
TooShortHash == [form |-> "short", cost |-> 0, salt |-> "", key |-> <<>>]
NoPrefixHash == [form |-> "noprefix", cost |-> 0, salt |-> "", key |-> <<>>]
MalformedHashes == {EmptyHash, TooShortHash, NoPrefixHash}

\* bcrypt.GenerateFromPassword(password, cost), salt being the random draw
GenerateFromPassword(p, cost, salt) ==
    IF ByteLen(p) > BcryptMaxBytes
    THEN [hash |-> EmptyHash, err |-> ErrPasswordTooLong]
    ELSE [hash |-> BcryptHash(cost, salt, BcryptKey(p)), err |-> NilError]

\* bcrypt.CompareHashAndPassword(hashedPassword, password)
CompareHashAndPassword(h, q) ==
    IF h.form \in {"empty", "short"} THEN ErrHashTooShort
    ELSE IF h.form = "noprefix" THEN ErrInvalidHashPrefix
    ELSE IF BcryptHash(h.cost, h.salt, BcryptKey(q)) = h THEN NilError
    ELSE ErrMismatchedHashAndPassword

\* PasswordManager.HashPassword
HashPassword(pm, p, salt) ==
    LET err == validatePasswordStrength(p) IN
    IF err # NilError THEN [hash |-> EmptyHash, err |-> err]
    ELSE LET g == GenerateFromPassword(p, pm.cost, salt)
         IN  IF g.err # NilError THEN [hash |-> EmptyHash, err |-> g.err]
             ELSE [hash |-> g.hash, err |-> NilError]

MutVerifyPasswordOneError(pm, h, q) ==
    IF CompareHashAndPassword(h, q) = NilError THEN NilError
    ELSE ErrMismatchedHashAndPassword

\* PasswordManager.VerifyPassword
VerifyPassword(pm, h, q) == CompareHashAndPassword(h, q)

-----------------------------------------------------------------------------
(* utils.ValidatePassword, the validator of the utils package.              *)

\* The *ValidationError utils.ValidatePassword returns, nil being the value
\* with no field and no message.
PasswordError(message) == [Field |-> "password", Message |-> message]
NoValidationError == [Field |-> "", Message |-> NilError]

MutValidatePasswordMaxExclusive(p) ==
    IF p = <<>> THEN PasswordError("password is required")
    ELSE IF ByteLen(p) < 8 THEN PasswordError(ErrTooShort)
    ELSE IF ByteLen(p) >= 128
    THEN PasswordError("password too long (max 128 characters)")
    ELSE LET f == ScanClasses(p) IN
    IF ~f.hasUpper THEN PasswordError(ErrNoUpper)
    ELSE IF ~f.hasLower THEN PasswordError(ErrNoLower)
    ELSE IF ~f.hasNumber THEN PasswordError(ErrNoNumber)
    ELSE IF ~f.hasSpecial THEN PasswordError(ErrNoSpecial)
    ELSE NoValidationError

\* utils.ValidatePassword
ValidatePassword(p) ==
    IF p = <<>> THEN PasswordError("password is required")
    ELSE IF ByteLen(p) < 8 THEN PasswordError(ErrTooShort)
    ELSE IF ByteLen(p) > 128
    THEN PasswordError("password too long (max 128 characters)")
    ELSE LET f == ScanClasses(p) IN
    IF ~f.hasUpper THEN PasswordError(ErrNoUpper)
    ELSE IF ~f.hasLower THEN PasswordError(ErrNoLower)
    ELSE IF ~f.hasNumber THEN PasswordError(ErrNoNumber)
    ELSE IF ~f.hasSpecial THEN PasswordError(ErrNoSpecial)
    ELSE NoValidationError

-----------------------------------------------------------------------------
(* SpecPassword: a password is drawn, an operation is applied to it.        *)

\* Passwords: any choice of characters of the alphabet, in its order, then
\* filler spaces; the filler counts reach both length limits of the policy and
\* the 72 bytes of bcrypt for every choice.
CharsOf(seq) == {seq[i] : i \in 1..Len(seq)}
CoreOf(S) == SelectSeq(Alphabet, LAMBDA c : c \in S)
Fill(n) == [i \in 1..n |-> Filler]
FillCounts == (0..17) \cup (61..74) \cup (119..129)

Passwords ==
    {CoreOf(S) \o Fill(n) : S \in SUBSET CharsOf(Alphabet), n \in FillCounts}

\* What is verified against a stored hash: the password, the password with a
\* character more or less, an unrelated one.
Candidates(p) ==
    {p, p \o <<Filler>>, p \o <<EAcute>>, <<"A", "a", "1", "!">> \o Fill(4)}
        \cup (IF p = <<>> THEN {} ELSE {SubSeq(p, 1, Len(p) - 1)})

\* The last operation: its name, the error it returned, and its other
\* results and arguments (zero values where the operation has none).
PwResult(op, err) ==
    [op |-> op, err |-> err, hash |-> EmptyHash, arg |-> <<>>,
     score |-> 0, label |-> ""]
NoPwResult == PwResult("none", NilError)

InitPassword ==
    /\ now = Epoch
    /\ JWT_SECRET = ""
    /\ jwt = NewJWTManager(JWT_SECRET)
    /\ tok = EmptyToken
    /\ origin = NoOrigin
    /\ res = NoCall
    /\ alive = TRUE
    /\ reqs = <<>>
    /\ password \in Passwords
    /\ pwres = NoPwResult
    /\ errors = <<>>
    /\ errout = <<>>
    /\ ctxcall = <<>>

DoIsPasswordValid ==
    /\ pwres.op = "none"
    /\ pwres' = PwResult("IsPasswordValid", IsPasswordValid(password))
    /\ UNCHANGED <<JWT_SECRET, now, jwt, tok, origin, res, alive, reqs, password, errors, errout, ctxcall>>

DoHashPassword ==
    \E salt \in Salts :
        /\ pwres.op = "none"
        /\ LET h == HashPassword(NewPasswordManager, password, salt)
           IN  pwres' = [PwResult("HashPassword", h.err) EXCEPT !.hash = h.hash]
        /\ UNCHANGED <<JWT_SECRET, now, jwt, tok, origin, res, alive, reqs, password, errors, errout, ctxcall>>

\* The hash HashPassword returned is stored, perhaps damaged, and a candidate
\* is verified against what is stored.
DoVerifyPassword ==
    \E h \in {pwres.hash} \cup MalformedHashes, q \in Candidates(password) :
        /\ pwres.op = "HashPassword"
        /\ pwres.err = NilError
        /\ pwres' = [PwResult("VerifyPassword",
                               VerifyPassword(NewPasswordManager, h, q))
                        EXCEPT !.hash = h, !.arg = q]
        /\ UNCHANGED <<JWT_SECRET, now, jwt, tok, origin, res, alive, reqs, password, errors, errout, ctxcall>>

DoGetPasswordStrength ==
    /\ pwres.op = "none"
    /\ pwres' = [PwResult("GetPasswordStrength", NilError)
                    EXCEPT !.score = GetPasswordStrength(password)]
    /\ UNCHANGED <<JWT_SECRET, now, jwt, tok, origin, res, alive, reqs, password, errors, errout, ctxcall>>

DoGetPasswordStrengthLabel ==
    /\ pwres.op = "none"
    /\ pwres' = [PwResult("GetPasswordStrengthLabel", NilError)
                    EXCEPT !.label = GetPasswordStrengthLabel(password)]
    /\ UNCHANGED <<JWT_SECRET, now, jwt, tok, origin, res, alive, reqs, password, errors, errout, ctxcall>>

\* utils.ValidatePassword on the drawn password; the error is kept by its
\* message.
DoValidatePassword ==
    /\ pwres.op = "none"
    /\ pwres' = PwResult("ValidatePassword", ValidatePassword(password).Message)
    /\ UNCHANGED <<JWT_SECRET, now, jwt, tok, origin, res, alive, reqs, password, errors,
                   errout, ctxcall>>

NextPassword ==
    \/ DoValidatePassword
    \/ DoIsPasswordValid
    \/ DoHashPassword
    \/ DoVerifyPassword
    \/ DoGetPasswordStrength
    \/ DoGetPasswordStrengthLabel

SpecPassword == InitPassword /\ [][NextPassword]_vars

-----------------------------------------------------------------------------
(* The context getters of the middleware package.  A result is the value    *)
(* returned (a uuid.UUID or a string), the error, or a run-time panic.      *)

GetterResult(uuid, str, err) ==
    [panic |-> FALSE, uuid |-> uuid, str |-> str, err |-> err]
GetterPanic == [panic |-> TRUE, uuid |-> UuidNil, str |-> "", err |-> ""]

\* GetUserIDFromContext
GetUserIDFromContext(ctx) ==
    LET userIDStr == ctx.user_id IN
    IF userIDStr = Nil
    THEN GetterResult(UuidNil, "", "user ID not found in context")
    ELSE IF ~IsString(userIDStr) THEN GetterPanic
    ELSE IF ~UUIDParseOk(userIDStr.val)
    THEN GetterResult(UuidNil, "", "invalid user ID format")
    ELSE GetterResult(UUIDParse(userIDStr.val), "", "")

\* GetUserEmailFromContext
GetUserEmailFromContext(ctx) ==
    LET userEmail == ctx.user_email IN
    IF userEmail = Nil
    THEN GetterResult(UuidNil, "", "user email not found in context")
    ELSE IF ~IsString(userEmail) THEN GetterPanic
    ELSE GetterResult(UuidNil, userEmail.val, "")

\* GetUserRoleFromContext
GetUserRoleFromContext(ctx) ==
    LET userRole == ctx.user_role IN
    IF userRole = Nil
    THEN GetterResult(UuidNil, "", "user role not found in context")
    ELSE IF ~IsString(userRole) THEN GetterPanic
    ELSE GetterResult(UuidNil, userRole.val, "")

-----------------------------------------------------------------------------
(* SpecContext: a handler holds a context, the one Authenticate builds for  *)
(* a validated token or another one, and calls a getter on it.              *)

\* The context Authenticate hands on for the token of (u, e), validated when
\* it was issued.
ContextOf(t) == AuthContext(ValidateToken(NewJWTManager(JWT_SECRET), t, Epoch).claims)

AuthenticateContexts ==
    {[from |-> "Authenticate", id |-> u, email |-> JSONString(e),
      ctx |-> ContextOf(GenerateToken(NewJWTManager(JWT_SECRET), u, e, Epoch))] :
        u \in UUIDs \cup {UuidNil}, e \in Emails}
    \cup {[from |-> "Authenticate", id |-> u, email |-> "",
           ctx |-> ContextOf(GenerateRefreshToken(NewJWTManager(JWT_SECRET), u, Epoch))] :
        u \in UUIDs \cup {UuidNil}}

OtherContexts ==
    {[from |-> "other", id |-> UuidNil, email |-> "", ctx |-> c] :
        c \in [user_id : {Nil, StringValue(UUIDString(UuidA)),
                          StringValue("not-a-uuid")},
               user_email : {Nil, StringValue("a@example.com"), StringValue("")},
               user_role : {Nil, StringValue("user"), StringValue("admin")}]}

NoGetterCall == [op |-> "none", out |-> GetterResult(UuidNil, "", "")]

InitContext ==
    /\ now = Epoch
    /\ JWT_SECRET \in JWTSecretEnv
    /\ jwt = NewJWTManager(JWT_SECRET)
    /\ tok = EmptyToken
    /\ origin = NoOrigin
    /\ res = NoCall
    /\ alive = TRUE
    /\ reqs = <<>>
    /\ password = <<>>
    /\ pwres = <<>>
    /\ errors = <<>>
    /\ errout = <<>>
    /\ \E c \in AuthenticateContexts \cup OtherContexts :
          ctxcall = [given |-> c, call |-> NoGetterCall]

DoGetUserID ==
    /\ ctxcall' = [ctxcall EXCEPT !.call =
            [op |-> "GetUserIDFromContext",
             out |-> GetUserIDFromContext(ctxcall.given.ctx)]]
    /\ UNCHANGED <<JWT_SECRET, now, jwt, tok, origin, res, alive, reqs, password, pwres,
                   errors, errout>>

DoGetUserEmail ==
    /\ ctxcall' = [ctxcall EXCEPT !.call =
            [op |-> "GetUserEmailFromContext",
             out |-> GetUserEmailFromContext(ctxcall.given.ctx)]]
    /\ UNCHANGED <<JWT_SECRET, now, jwt, tok, origin, res, alive, reqs, password, pwres,
                   errors, errout>>

DoGetUserRole ==
    /\ ctxcall' = [ctxcall EXCEPT !.call =
            [op |-> "GetUserRoleFromContext",
             out |-> GetUserRoleFromContext(ctxcall.given.ctx)]]
    /\ UNCHANGED <<JWT_SECRET, now, jwt, tok, origin, res, alive, reqs, password, pwres,
                   errors, errout>>

NextContext ==
    \/ DoGetUserID
    \/ DoGetUserEmail
    \/ DoGetUserRole

SpecContext == InitContext /\ [][NextContext]_vars

-----------------------------------------------------------------------------
(* utils.ValidationErrors.  A string is the sequence of its characters.    *)

\* ValidationError.Error: fmt.Sprintf("%s: %s", e.Field, e.Message)
ValidationErrorError(e) == e.Field \o <<":", " ">> \o e.Message

\* strings.Join(elems, sep): the first element, then sep and an element for
\* each further one.
RECURSIVE JoinFrom(_, _, _)
JoinFrom(elems, sep, i) ==
    IF i > Len(elems) THEN <<>>
    ELSE sep \o elems[i] \o JoinFrom(elems, sep, i + 1)
Join(elems, sep) ==
    IF Len(elems) = 0 THEN <<>> ELSE elems[1] \o JoinFrom(elems, sep, 2)

MutErrorsErrorCommaSeparated(e) ==
    IF Len(e) = 0 THEN <<>>
    ELSE Join([i \in 1..Len(e) |-> ValidationErrorError(e[i])], <<",", " ">>)

\* ValidationErrors.Error
ValidationErrorsError(e) ==
    IF Len(e) = 0 THEN <<>>
    ELSE Join([i \in 1..Len(e) |-> ValidationErrorError(e[i])], <<";", " ">>)

\* ValidationErrors.HasErrors
HasErrors(e) == Len(e) > 0

\* ValidationErrors.Add
Add(e, field, message) == Append(e, [Field |-> field, Message |-> message])

-----------------------------------------------------------------------------
(* SpecErrors: entries are added to a ValidationErrors value, and it is     *)
(* rendered and asked whether it has errors.                                *)

MaxErrors == 3

FieldNames == {<<>>, <<"f", "1">>, <<"f", "2">>}
Messages == {<<"e", "1">>, <<"e", ";", " ", "2">>}

NoErrOut == [op |-> "none", str |-> <<>>, has |-> FALSE]

\* var errors ValidationErrors
InitErrors ==
    /\ now = Epoch
    /\ JWT_SECRET = ""
    /\ jwt = NewJWTManager(JWT_SECRET)
    /\ tok = EmptyToken
    /\ origin = NoOrigin
    /\ res = NoCall
    /\ alive = TRUE
    /\ reqs = <<>>
    /\ password = <<>>
    /\ pwres = <<>>
    /\ errors = <<>>
    /\ errout = NoErrOut
    /\ ctxcall = <<>>

DoAdd ==
    \E f \in FieldNames, m \in Messages :
        /\ Len(errors) < MaxErrors
        /\ errors' = Add(errors, f, m)
        /\ errout' = NoErrOut
        /\ UNCHANGED <<JWT_SECRET, now, jwt, tok, origin, res, alive, reqs, password, pwres, ctxcall>>

DoError ==
    /\ errout' = [op |-> "Error", str |-> ValidationErrorsError(errors),
                  has |-> FALSE]
    /\ UNCHANGED <<JWT_SECRET, now, jwt, tok, origin, res, alive, reqs, password, pwres,
                   errors, ctxcall>>

DoHasErrors ==
    /\ errout' = [op |-> "HasErrors", str |-> <<>>, has |-> HasErrors(errors)]
    /\ UNCHANGED <<JWT_SECRET, now, jwt, tok, origin, res, alive, reqs, password, pwres,
                   errors, ctxcall>>

NextErrors ==
    \/ DoAdd
    \/ DoError
    \/ DoHasErrors

SpecErrors == InitErrors /\ [][NextErrors]_vars

-----------------------------------------------------------------------------
(* Properties of the token service (SpecToken).                             *)

IssuedAccess == origin.op = "GenerateToken" /\ origin.tamper = "none"

\* The validity window the contract promises for a token issued at t0.
InWindow(t0, at) == t0 <= at /\ at <= t0 + AccessTTL - Second

\* C1 as stated: for every (user id, email) pair, ValidateToken of the token
\* GenerateToken(id, email) returned, by the same manager and inside the
\* validity window, succeeds and returns claims with UserID = id and
\* Email = email.
C1_RoundTrip ==
    (res.called /\ IssuedAccess /\ InWindow(origin.at, res.at))
    => /\ res.out.ok
       /\ res.out.claims.UserID = origin.id
       /\ res.out.claims.Email = origin.email

\* C1, amended: for every (user id, email) pair the round trip inside the
\* validity window succeeds and returns UserID = id; it returns Email = email
\* when the email is valid UTF-8, and an email with its invalid bytes
\* replaced by U+FFFD, not the one handed in, when it is not.
C1_RoundTripUTF8 ==
    (res.called /\ IssuedAccess /\ InWindow(origin.at, res.at))
    => /\ res.out.ok
       /\ res.out.claims.UserID = origin.id
       /\ origin.email \in ValidEmails
            => res.out.claims.Email = origin.email
       /\ origin.email = BadUTF8Email
            => /\ res.out.claims.Email = "<U+FFFD>@example.com"
               /\ res.out.claims.Email # origin.email

C1_Witness ==
    /\ res.called /\ IssuedAccess /\ origin.email \in ValidEmails
    /\ origin.id = UuidB
    /\ res.at > origin.at
    /\ InWindow(origin.at, res.at)
    /\ res.out.ok /\ res.out.claims.UserID = UuidB

\* C2: an access token issued at t0 is accepted at every instant from t0 up
\* to one second before t0 + 24h and rejected at every instant after
\* t0 + 24h, wherever the clock was set in between.
C2_Expiry ==
    (res.called /\ IssuedAccess)
    => /\ InWindow(origin.at, res.at) => res.out.ok
       /\ res.at > origin.at + AccessTTL => ~res.out.ok

\* The last promised instant, for a token issued between two whole seconds.
C2_Witness ==
    /\ res.called /\ IssuedAccess
    /\ origin.at % Second # 0
    /\ res.at = origin.at + AccessTTL - Second
    /\ res.out.ok

-----------------------------------------------------------------------------
(* Properties of the middleware chain (Spec, SpecConcurrent).               *)

\* The middleware at position i of rq's chain has run.
Acted(rq, i) ==
    /\ i <= Len(rq.chain)
    /\ \/ rq.pos > i
       \/ rq.pos = i /\ rq.state # "running"

Bypassed(rq) == shouldSkipAuth(rq.path, rq.method)

\* Missing or empty header, no "Bearer " prefix, or nothing after the prefix.
BadAuthorization(h) ==
    \/ HeaderIsEmpty(h)
    \/ h.prefix # "Bearer "
    \/ h.token = EmptyToken

\* "Bearer <t>" with ValidateToken(t) succeeding at the serving instant.
ValidBearer(h) ==
    /\ h.prefix = "Bearer "
    /\ h.token # EmptyToken
    /\ ValidateToken(jwt, h.token, now).ok

BearerClaims(h) == ValidateToken(jwt, h.token, now).claims

AuthenticateAt(rq, i) ==
    /\ i \in 1..Len(rq.chain)
    /\ rq.chain[i] = MwAuthenticate
    /\ Acted(rq, i)

\* C3: a non-bypassed request whose Authorization header is missing, empty,
\* lacks the "Bearer " prefix or has an empty token gets 401 from
\* Authenticate, and the next handler is never invoked.
C3_NoTokenIs401 ==
    \A r \in DOMAIN reqs : \A i \in 1..Len(reqs[r].chain) :
        (AuthenticateAt(reqs[r], i) /\ ~Bypassed(reqs[r])
            /\ BadAuthorization(reqs[r].auth))
        => /\ reqs[r].pos = i
           /\ reqs[r].state = "responded"
           /\ reqs[r].resp.status = 401
           /\ reqs[r].handlerCalls = 0

C3_Witness ==
    \E r \in DOMAIN reqs :
        /\ AuthenticateAt(reqs[r], 1) /\ ~Bypassed(reqs[r])
        /\ reqs[r].auth.prefix = "bearer "
        /\ reqs[r].auth.token = AccessA
        /\ reqs[r].resp.status = 401
        /\ reqs[r].state = "responded"

\* C4: a non-bypassed request carrying "Bearer <t>" with ValidateToken(t)
\* succeeding has the next handler invoked by Authenticate, with a context
\* holding the token's subject id, its email and the role "user".
C4_ValidTokenReachesNext ==
    \A r \in DOMAIN reqs : \A i \in 1..Len(reqs[r].chain) :
        (AuthenticateAt(reqs[r], i) /\ ~Bypassed(reqs[r])
            /\ ValidBearer(reqs[r].auth))
        => /\ reqs[r].pos > i
           /\ reqs[r].state # "fatal"
           /\ reqs[r].ctx = AuthContext(BearerClaims(reqs[r].auth))

\* C5: in the chain Authenticate -> RequireRole(r) -> handler, a request with
\* a valid token and a required role r other than the context's role ends
\* with a 403 response.
C5_WrongRoleIs403 ==
    \A r \in DOMAIN reqs :
        (/\ Len(reqs[r].chain) = 2
         /\ reqs[r].chain[1] = MwAuthenticate
         /\ reqs[r].chain[2].mw = "RequireRole"
         /\ reqs[r].chain[2].role # "user"
         /\ ~Bypassed(reqs[r])
         /\ ValidBearer(reqs[r].auth)
         /\ reqs[r].state # "running")
        => reqs[r].resp.status = 403

\* C6: in the chain Authenticate -> RequireUser -> handler, for a request
\* authenticated as subject s whose path has a segment "users" followed by a
\* segment x, the handler is invoked when x is the string form of s, and the
\* response is 403 with the handler not invoked when x differs.
C6_SelfAccess ==
    \A r \in DOMAIN reqs :
        (/\ reqs[r].chain = <<MwAuthenticate, MwRequireUser>>
         /\ ~Bypassed(reqs[r])
         /\ ValidBearer(reqs[r].auth)
         /\ UsersIndices(reqs[r].path) # {}
         /\ reqs[r].state # "running")
        => LET x == reqs[r].path[FirstIndex(UsersIndices(reqs[r].path)) + 1]
               s == UUIDString(BearerClaims(reqs[r].auth).UserID)
           IN /\ x = s => reqs[r].handlerCalls = 1
              /\ x # s => reqs[r].resp.status = 403 /\ reqs[r].handlerCalls = 0

\* C7: whatever the path, method, header and chain, no request ends in a
\* panic, in unbounded recursion or in an abort of the process.
C7_NoCrash ==
    /\ alive
    /\ \A r \in DOMAIN reqs : reqs[r].state \notin {"panic", "fatal"}

\* Where a failing request failed inside Authenticate.
FailedExtract(rq) ==
    /\ AuthenticateAt(rq, 1) /\ ~Bypassed(rq)
    /\ ~extractToken(rq.auth).ok

FailedValidate(rq) ==
    /\ AuthenticateAt(rq, 1) /\ ~Bypassed(rq)
    /\ extractToken(rq.auth).ok
    /\ ~ValidateToken(jwt, rq.auth.token, now).ok

\* C8 as stated: a request failing at extraction and one failing at
\* validation get the same response: status, headers and body.
C8_SameResponse ==
    \A r1, r2 \in DOMAIN reqs :
        (FailedExtract(reqs[r1]) /\ FailedValidate(reqs[r2]))
        => reqs[r1].resp = reqs[r2].resp

\* C8 amended: two requests failing in Authenticate get the same status 401,
\* the same headers and the same error code; the whole body is the same for
\* two failures of the same stage whatever their cause, and the message is
\* MsgExtract for an extraction failure and MsgValidate for a validation
\* failure.
C8_SameStatusStageMessage ==
    \A r1, r2 \in DOMAIN reqs :
        LET a == reqs[r1]
            b == reqs[r2]
        IN ((FailedExtract(a) \/ FailedValidate(a))
             /\ (FailedExtract(b) \/ FailedValidate(b)))
           => /\ a.resp.status = 401 /\ b.resp.status = 401
              /\ a.resp.contentType = b.resp.contentType
              /\ a.resp.code = b.resp.code
              /\ (FailedExtract(a) <=> FailedExtract(b)) => a.resp = b.resp
              /\ FailedExtract(a) => a.resp.message = MsgExtract
              /\ FailedValidate(a) => a.resp.message = MsgValidate

\* An expired token beside a forged one, and a missing header beside both.
C8_Witness ==
    /\ now > IssueInstant + AccessTTL
    /\ \E r1, r2 \in DOMAIN reqs :
        /\ FailedValidate(reqs[r1]) /\ reqs[r1].auth.token = AccessA
        /\ FailedExtract(reqs[r2])
        /\ reqs[r1].resp.status = 401 /\ reqs[r2].resp.status = 401
        /\ reqs[r1].resp.message # reqs[r2].resp.message

-----------------------------------------------------------------------------
(* Properties of the password policy (SpecPassword).                        *)

Has(p, IsClass(_)) == \E i \in 1..Len(p) : IsClass(p[i])
HasSpecial(p) == \E i \in 1..Len(p) : UnicodeIsPunct(p[i]) \/ UnicodeIsSymbol(p[i])

\* The rules in the order the code tests them, with the message of each.
RuleOrder == <<"min", "max", "upper", "lower", "number", "special">>

RuleMessage(rule) ==
    CASE rule = "min"     -> ErrTooShort
      [] rule = "max"     -> ErrTooLong
      [] rule = "upper"   -> ErrNoUpper
      [] rule = "lower"   -> ErrNoLower
      [] rule = "number"  -> ErrNoNumber
      [] rule = "special" -> ErrNoSpecial

Violates(p, rule) ==
    CASE rule = "min"     -> ByteLen(p) < 8
      [] rule = "max"     -> ByteLen(p) > 128
      [] rule = "upper"   -> ~Has(p, UnicodeIsUpper)
      [] rule = "lower"   -> ~Has(p, UnicodeIsLower)
      [] rule = "number"  -> ~Has(p, UnicodeIsNumber)
      [] rule = "special" -> ~HasSpecial(p)

ViolatedRules(p) == {i \in 1..Len(RuleOrder) : Violates(p, RuleOrder[i])}

\* The rules an error value reports.
ReportedRules(err) == {i \in 1..Len(RuleOrder) : RuleMessage(RuleOrder[i]) = err}

Validated == pwres.op = "IsPasswordValid"

\* C9 as stated: a password violating k rules has all k violations reported.
C9_ReportsAll ==
    Validated => ReportedRules(pwres.err) = ViolatedRules(password)

\* C9 amended: validation stops at the first violated rule, in the order
\* minimum length, maximum length, uppercase, lowercase, digit, symbol: the
\* result reports that one rule alone, and nothing when no rule is violated.
C9_ReportsFirst ==
    Validated =>
        ReportedRules(pwres.err) =
            IF ViolatedRules(password) = {} THEN {}
            ELSE {FirstIndex(ViolatedRules(password))}

\* Five rules violated, one reported.
C9_Witness ==
    /\ Validated
    /\ Cardinality(ViolatedRules(password)) = 5
    /\ Cardinality(ReportedRules(pwres.err)) = 1

\* C10 as stated: no error iff the length is in 8..128 and there is an
\* uppercase letter, a lowercase letter, a decimal digit and a punctuation or
\* symbol character.
C10_ValidIffDecimalDigit ==
    Validated =>
        (pwres.err = NilError <=>
            /\ ByteLen(password) >= 8 /\ ByteLen(password) <= 128
            /\ Has(password, UnicodeIsUpper)
            /\ Has(password, UnicodeIsLower)
            /\ Has(password, UnicodeIsDigit)
            /\ HasSpecial(password))

\* C10 amended: no error iff the length in bytes is in 8..128 and there is an
\* uppercase letter, a lowercase letter, a Unicode number character (a
\* decimal digit or any other character of category N) and a punctuation or
\* symbol character.
C10_ValidIffNumber ==
    Validated =>
        (pwres.err = NilError <=>
            /\ ByteLen(password) >= 8 /\ ByteLen(password) <= 128
            /\ Has(password, UnicodeIsUpper)
            /\ Has(password, UnicodeIsLower)
            /\ Has(password, UnicodeIsNumber)
            /\ HasSpecial(password))

\* Accepted without a decimal digit, at exactly 128 bytes.
C10_Witness ==
    /\ Validated
    /\ pwres.err = NilError
    /\ ~Has(password, UnicodeIsDigit)
    /\ ByteLen(password) = 128

-----------------------------------------------------------------------------
(* Properties of hashing and verification (SpecPassword)                    *)

Hashed == pwres.op = "HashPassword"

\* C11: HashPassword(p) returns an encoded hash exactly when the strength
\* validation of p reports no violation; when it reports one, HashPassword
\* returns that policy error and no hash.
C11_HashIffValid ==
    Hashed =>
        LET v == validatePasswordStrength(password) IN
        /\ (pwres.hash # EmptyHash /\ pwres.err = NilError) <=> (v = NilError)
        /\ v # NilError => (pwres.err = v /\ pwres.hash = EmptyHash)

Verified == pwres.op = "VerifyPassword"
VerifiedOwnHash == Verified /\ pwres.hash.form = "bcrypt"

\* C12: for a password p that HashPassword accepted and any candidate q,
\* VerifyPassword(HashPassword(p), q) succeeds when q = p and fails when q is
\* any other password.
C12_VerifyIffSame ==
    VerifiedOwnHash => (pwres.err = NilError <=> pwres.arg = password)

VerifiedMalformed == Verified /\ pwres.hash \in MalformedHashes

\* C13 (as claimed): VerifyPassword fails with the same error for a malformed
\* hash string as for a well-formed hash that does not match, which is
\* bcrypt's mismatch error.
C13_SameError ==
    /\ (VerifiedOwnHash /\ pwres.err # NilError) =>
            pwres.err = ErrMismatchedHashAndPassword
    /\ VerifiedMalformed => pwres.err = ErrMismatchedHashAndPassword

\* C13 (amended): VerifyPassword fails in both cases, with different errors:
\* bcrypt's mismatch error for a well-formed hash that does not match, and
\* bcrypt's "too short" or "invalid prefix" error for a malformed hash.
C13_ErrorNamesCause ==
    /\ (VerifiedOwnHash /\ pwres.err # NilError) =>
            pwres.err = ErrMismatchedHashAndPassword
    /\ VerifiedMalformed =>
            /\ pwres.err \in {ErrHashTooShort, ErrInvalidHashPrefix}
            /\ pwres.err # ErrMismatchedHashAndPassword
            /\ pwres.err = ErrInvalidHashPrefix <=> pwres.hash = NoPrefixHash

C13_Witness ==
    /\ Verified
    /\ pwres.hash = TooShortHash
    /\ pwres.arg = password
    /\ validatePasswordStrength(password) = NilError
    /\ pwres.err = ErrHashTooShort

\* C18: GetPasswordStrength(p) is between 0 and 100 inclusive for every
\* password p.
C18_ScoreWithin0And100 ==
    pwres.op = "GetPasswordStrength" => (0 <= pwres.score /\ pwres.score <= 100)

\* The character classes of the score that a password has a character of.
ClassesPresent(p) ==
    {c \in {"upper", "lower", "number", "special"} :
        CASE c = "upper"  -> Has(p, UnicodeIsUpper)
          [] c = "lower"  -> Has(p, UnicodeIsLower)
          [] c = "number" -> Has(p, UnicodeIsNumber)
          [] OTHER        -> HasSpecial(p)}

AdditiveScore(p) ==
      (IF ByteLen(p) >= 16 THEN 40
       ELSE IF ByteLen(p) >= 12 THEN 30
       ELSE IF ByteLen(p) >= 8 THEN 20 ELSE 0)
    + 15 * Cardinality(ClassesPresent(p))
    + (IF {"upper", "lower"} \subseteq ClassesPresent(p) THEN 10 ELSE 0)

LabelAt(score) ==
    CHOOSE l \in {"Very Strong", "Strong", "Medium", "Weak", "Very Weak"} :
        /\ l = "Very Strong" <=> score >= 80
        /\ l = "Strong" <=> (60 <= score /\ score < 80)
        /\ l = "Medium" <=> (40 <= score /\ score < 60)
        /\ l = "Weak" <=> (20 <= score /\ score < 40)

\* C19: GetPasswordStrengthLabel(p) is the label of the additive score of p
\* (+20, +10, +10 for a length of at least 8, 12, 16; +15 for each character
\* class present; +10 for both cases) under the thresholds 80 Very Strong,
\* 60 Strong, 40 Medium, 20 Weak, else Very Weak; the scores 80, 60, 40 and
\* 20 themselves fall in the higher label.
C19_LabelOfScore ==
    pwres.op = "GetPasswordStrengthLabel" =>
        /\ pwres.label = LabelAt(AdditiveScore(password))
        /\ AdditiveScore(password) = 80 => pwres.label = "Very Strong"
        /\ AdditiveScore(password) = 60 => pwres.label = "Strong"
        /\ AdditiveScore(password) = 40 => pwres.label = "Medium"
        /\ AdditiveScore(password) = 20 => pwres.label = "Weak"

C19_Witness ==
    /\ pwres.op = "GetPasswordStrengthLabel"
    /\ AdditiveScore(password) = 60
    /\ Cardinality(ClassesPresent(password)) = 2
    /\ pwres.label = "Strong"

-----------------------------------------------------------------------------
(* Properties of the errors of ValidateToken (SpecToken)                    *)

ValidateFailed == res.called /\ ~res.out.ok
Untampered == origin.op # "none" /\ origin.tamper = "none"

\* C14 (as claimed): every failure of ValidateToken returns one and the same
\* error, the one a malformed token gets, whatever the cause: a bad signature,
\* an expired token, a wrong algorithm tag.
C14_OneError ==
    ValidateFailed => res.out.err = ValidateToken(jwt, EmptyToken, now).err

\* C14 (amended): every failure of ValidateToken returns an error, and the
\* error names the cause: malformed for a string that is no token, unverifiable
\* for an algorithm tag that is unknown or not HMAC, invalid signature for a
\* token changed or signed without the server key, expired or not valid yet
\* for an untouched token outside its window.
C14_ErrorNamesCause ==
    ValidateFailed =>
        /\ res.out.err # {}
        /\ origin.op = "none" => res.out.err = {"token is malformed"}
        /\ origin.tamper = "truncate" => res.out.err = {"token is malformed"}
        /\ origin.tamper \in
                {"alg:none", "alg:unsigned", "alg:RS256", "alg:unknown"} =>
              /\ "token is unverifiable" \in res.out.err
              /\ "token signature is invalid" \notin res.out.err
        /\ origin.tamper \in {"alg:HS384", "extend-exp", "resign-attacker"} =>
              res.out.err = {"token signature is invalid"}
        /\ Untampered =>
              /\ "token has invalid claims" \in res.out.err
              /\ "token is expired" \in res.out.err <=> res.at >= tok.claims.exp
              /\ "token is not valid yet" \in res.out.err <=>
                    res.at < NewNumericDate(origin.at)

C14_Witness ==
    /\ ValidateFailed
    /\ Untampered
    /\ origin.op = "GenerateToken"
    /\ res.at >= origin.at + AccessTTL
    /\ res.out.err = {"token has invalid claims", "token is expired"}

AlgSwaps == {"alg:none", "alg:unsigned", "alg:HS384", "alg:RS256",
             "alg:unknown"}

\* C16: ValidateToken rejects every token whose algorithm tag is not of the
\* HMAC family, and does so before any signature check with the server key
\* (the error is "unverifiable", never "signature is invalid"); a token made
\* from an issued one by swapping only the algorithm tag fails validation.
C16_NonHMACRejected ==
    res.called =>
        /\ (tok.shape = "jwt" /\ tok.alg \notin HMACFamily) =>
              /\ ~res.out.ok
              /\ "token is unverifiable" \in res.out.err
              /\ "token signature is invalid" \notin res.out.err
        /\ (origin.op # "none" /\ origin.tamper \in AlgSwaps) => ~res.out.ok

C16_Witness ==
    /\ res.called
    /\ origin.op = "GenerateToken"
    /\ origin.tamper = "alg:unsigned"
    /\ InWindow(origin.at, res.at)
    /\ tok.alg = "none"
    /\ res.out.err = {"token is unverifiable", "unexpected signing method"}

-----------------------------------------------------------------------------
(* Properties of repeated validation (SpecTwice)                            *)

Twice == res.called /\ res.prev.called
Unchanged == jwt = NewJWTManager(JWT_SECRET) /\ tok = TokenOf(origin)

\* C15 (as claimed): ValidateToken run twice on the same token yields the
\* same result, and a call changes no state of the JWTManager or of the token.
C15_SameResult ==
    /\ res.called => Unchanged
    /\ Twice => res.out = res.prev.out

\* Two clock readings on the same side of both bounds of the claims c.
SamePhase(c, t1, t2) ==
    /\ t1 < c.exp <=> t2 < c.exp
    /\ t1 < c.nbf <=> t2 < c.nbf

\* C15 (amended): ValidateToken run twice on the same token yields the same
\* result when no bound of the token's validity window (not-before, expiry)
\* lies between the two clock readings, and a call changes no state of the
\* JWTManager or of the token.
C15_SameResultSamePhase ==
    /\ res.called => Unchanged
    /\ (Twice /\ SamePhase(tok.claims, res.prev.at, res.at)) =>
            res.out = res.prev.out

C15_Witness ==
    /\ Twice
    /\ Untampered
    /\ res.prev.at < res.at
    /\ res.prev.out.ok
    /\ res.out = res.prev.out

-----------------------------------------------------------------------------
(* Properties of refresh tokens (Spec)                                      *)

BearsRefresh(rq) == rq.auth = Header("Bearer ", RefreshA)

\* C17: the refresh token GenerateRefreshToken(id) made at t0 carries no
\* email, expires at t0 + 7 * 24h, and is accepted wherever an access token
\* is: ValidateToken returns claims with UserID = id, and Authenticate hands a
\* non-bypassed request bearing it to the next handler as authenticated, also
\* once an access token issued at t0 has expired.
C17_RefreshAuthenticates ==
    /\ RefreshA.claims.email = ""
    /\ RefreshA.claims.exp = NewNumericDate(IssueInstant + RefreshTTL)
    /\ \A r \in DOMAIN reqs : \A i \in 1..Len(reqs[r].chain) :
        (AuthenticateAt(reqs[r], i) /\ ~Bypassed(reqs[r])
            /\ BearsRefresh(reqs[r]))
        => /\ ValidateToken(jwt, RefreshA, now).ok
           /\ ValidateToken(jwt, RefreshA, now).claims.UserID = UuidA
           /\ reqs[r].pos > i
           /\ reqs[r].state # "fatal"
           /\ reqs[r].ctx = AuthContext(BearerClaims(reqs[r].auth))

-----------------------------------------------------------------------------
(* Properties of ValidationErrors (SpecErrors)                              *)

\* The entries of e in insertion order, each as "field: message", with "; "
\* between two of them: what the last entry adds to the rendering of the
\* entries before it.
RECURSIVE Rendered(_)
Rendered(e) ==
    IF e = <<>> THEN <<>>
    ELSE LET n == Len(e)
             last == e[n].Field \o <<":", " ">> \o e[n].Message
         IN  IF n = 1 THEN last
             ELSE Rendered(SubSeq(e, 1, n - 1)) \o <<";", " ">> \o last

\* C20: after any sequence of Add(field, message) calls, Error() is the
\* entries rendered as "field: message" in insertion order and joined by
\* "; "; with no Add it is the empty string and HasErrors() is false, and
\* after at least one Add HasErrors() is true.
C20_ErrorRendersEntries ==
    /\ errout.op = "Error" =>
          /\ errout.str = Rendered(errors)
          /\ errors = <<>> => errout.str = <<>>
    /\ errout.op = "HasErrors" => (errout.has <=> errors # <<>>)

C20_Witness ==
    /\ errout.op = "Error"
    /\ Len(errors) = 2
    /\ errors[1].Field = <<"f", "1">> /\ errors[1].Message = <<"e", "1">>
    /\ errors[2].Field = <<"f", "2">>
    /\ errors[2].Message = <<"e", ";", " ", "2">>
    /\ errout.str = <<"f", "1", ":", " ", "e", "1", ";", " ",
                      "f", "2", ":", " ", "e", ";", " ", "2">>

-----------------------------------------------------------------------------
(* Properties of the bypass list (SpecSkip, Spec)                           *)

\* The (path, method) pairs of the bypass list.
ListedPairs ==
    {<<PHealth, "GET">>, <<PMetrics, "GET">>, <<PLogin, "POST">>,
     <<PRegister, "POST">>, <<PRefresh, "POST">>}

OnBypassList(rq) == <<rq.path, rq.method>> \in ListedPairs \/ rq.method = "OPTIONS"

\* C21: shouldSkipAuth(path, method) is true exactly for the five listed
\* (path, method) pairs and for the method OPTIONS: a request without
\* credentials passes Authenticate exactly then, and gets 401 on a listed path
\* with another method and on a path that extends or prefixes a listed one.
C21_SkipExactlyListed ==
    \A r \in DOMAIN reqs :
        /\ shouldSkipAuth(reqs[r].path, reqs[r].method) <=> OnBypassList(reqs[r])
        /\ AuthenticateAt(reqs[r], 1) =>
              IF OnBypassList(reqs[r])
              THEN reqs[r].pos > 1 /\ reqs[r].resp = NoResponse
              ELSE /\ reqs[r].pos = 1
                   /\ reqs[r].resp.status = 401
                   /\ reqs[r].handlerCalls = 0

C21_Witness ==
    \E r \in DOMAIN reqs :
        /\ AuthenticateAt(reqs[r], 1)
        /\ reqs[r].path = PLogin
        /\ reqs[r].method = "GET"
        /\ reqs[r].state = "responded"
        /\ reqs[r].resp.status = 401

\* C22: for a request on the bypass list, Authenticate invokes the next
\* handler with the request context unchanged: no user_id, user_email or
\* user_role is attached, whether the Authorization header is absent, invalid
\* or a valid token.
C22_BypassKeepsContext ==
    \A r \in DOMAIN reqs : \A i \in 1..Len(reqs[r].chain) :
        (AuthenticateAt(reqs[r], i) /\ OnBypassList(reqs[r]))
        => /\ reqs[r].pos > i
           /\ reqs[r].ctx = reqs[r].ctx0
           /\ reqs[r].handlerCalls > 0 => reqs[r].handlerCtx = reqs[r].ctx0

C22_Witness ==
    \E r \in DOMAIN reqs :
        /\ reqs[r].chain = <<MwAuthenticate>>
        /\ reqs[r].path = PLogin /\ reqs[r].method = "POST"
        /\ ValidBearer(reqs[r].auth)
        /\ reqs[r].ctx0 = EmptyContext
        /\ reqs[r].state = "handled"
        /\ reqs[r].handlerCalls = 1
        /\ reqs[r].handlerCtx = EmptyContext

-----------------------------------------------------------------------------
(* Properties of the guards (Spec)                                          *)

AdminRoute(rq) == rq.chain = <<MwAuthenticate, MwRequireAdmin>>

\* C23: in the chain Authenticate -> RequireAdmin -> handler, the handler is
\* never invoked, for any request entering with the server's base context:
\* Authenticate gives every context the role "user", and a bypassed request
\* has no role.
C23_AdminNeverPasses ==
    \A r \in DOMAIN reqs :
        (AdminRoute(reqs[r]) /\ reqs[r].ctx0 = EmptyContext)
        => /\ reqs[r].handlerCalls = 0
           /\ reqs[r].state # "handled"
           /\ reqs[r].pos <= 2
           /\ reqs[r].ctx.user_role \in {Nil, StringValue("user")}

C23_Witness ==
    \E r \in DOMAIN reqs :
        /\ AdminRoute(reqs[r]) /\ reqs[r].ctx0 = EmptyContext
        /\ OnBypassList(reqs[r])
        /\ reqs[r].pos = 2
        /\ reqs[r].state = "responded"
        /\ reqs[r].resp.status = 401
        /\ reqs[r].handlerCalls = 0

\* No segment "users" of the path has a segment after it.
NoUserSegment(path) ==
    \A i \in 1..Len(path) : path[i] = "users" => i = Len(path)

\* C24: RequireUser, entered with a context that holds a user_id, passes the
\* request to the next handler without any ownership check when the path has
\* no segment "users" followed by another segment, whoever the subject is.
C24_NoUserSegmentPasses ==
    \A r \in DOMAIN reqs :
        (/\ Len(reqs[r].chain) >= 1
         /\ reqs[r].chain[1] = MwRequireUser
         /\ Acted(reqs[r], 1)
         /\ reqs[r].ctx0.user_id # Nil
         /\ NoUserSegment(reqs[r].path))
        => /\ reqs[r].pos > 1
           /\ reqs[r].ctx = reqs[r].ctx0
           /\ Len(reqs[r].chain) = 1 => reqs[r].state \in {"running", "handled"}

C24_Witness ==
    \E r \in DOMAIN reqs :
        /\ reqs[r].chain = <<MwRequireUser>>
        /\ reqs[r].path = PUsersOnly
        /\ reqs[r].ctx0 = AuthContext([UserID |-> UuidA, Email |-> "a@example.com"])
        /\ reqs[r].state = "handled"
        /\ reqs[r].handlerCalls = 1

RoleGuard(mw) == mw.mw \in {"RequireRole", "RequireAdmin"}
Is401(rq, i) ==
    /\ rq.pos = i
    /\ rq.state = "responded"
    /\ rq.resp.status = 401
    /\ rq.handlerCalls = 0

\* C25: the guards fail closed.  RequireRole entered with a context without
\* user_role, and RequireUser entered with a context without user_id (behind
\* a bypassed route, or with no Authenticate in front), respond with 401 and
\* never invoke the next handler.
C25_GuardsFailClosed ==
    \A r \in DOMAIN reqs : \A i \in 1..Len(reqs[r].chain) :
        /\ (Acted(reqs[r], i) /\ RoleGuard(reqs[r].chain[i])
                /\ reqs[r].ctx.user_role = Nil) => Is401(reqs[r], i)
        /\ (Acted(reqs[r], i) /\ reqs[r].chain[i] = MwRequireUser
                /\ reqs[r].ctx.user_id = Nil) => Is401(reqs[r], i)

C25_Witness ==
    \E r \in DOMAIN reqs :
        /\ reqs[r].chain = <<MwAuthenticate, MwRequireUser>>
        /\ reqs[r].path = PHealth /\ reqs[r].method = "GET"
        /\ reqs[r].ctx0 = EmptyContext
        /\ Is401(reqs[r], 2)
        /\ reqs[r].resp.message = "User ID not found in context"

-----------------------------------------------------------------------------
(* Properties of the outcome of Authenticate (Spec, SpecConcurrent)         *)

PassedOn(rq, i) == rq.pos > i
Rejected(rq, i) ==
    /\ rq.pos = i
    /\ rq.state = "responded"
    /\ rq.resp # NoResponse
    /\ rq.handlerCalls = 0

\* C26: every request through Authenticate ends in exactly one terminal
\* outcome: the next handler is invoked, once (authenticated or bypassed), or
\* one error response is written (rejected); a rejected request never reaches
\* the next handler and an accepted one gets no error response from
\* Authenticate.
C26_OneOutcome ==
    \A r \in DOMAIN reqs : \A i \in 1..Len(reqs[r].chain) :
        AuthenticateAt(reqs[r], i)
        => /\ PassedOn(reqs[r], i) \/ Rejected(reqs[r], i)
           /\ ~(PassedOn(reqs[r], i) /\ Rejected(reqs[r], i))
           /\ reqs[r].handlerCalls <= 1
           /\ (~OnBypassList(reqs[r]) /\ ValidBearer(reqs[r].auth))
                => PassedOn(reqs[r], i)

\* The identity a request's handler is to observe: none on a bypass, the
\* claims of the request's own token otherwise.
OwnIdentity(rq) ==
    IF OnBypassList(rq) THEN rq.ctx0 ELSE AuthContext(BearerClaims(rq.auth))

\* What Authenticate makes of a request served with no other in flight.
ServedAlone(rq) ==
    Authenticate(NewRequest(rq.path, rq.method, rq.auth, rq.chain, rq.ctx0),
                 jwt, now)

\* C27: when requests with different tokens are served concurrently by one
\* AuthMiddleware, under every interleaving a handler that runs observes only
\* the identity of its request's own token; a request's context holds what
\* the request came with or the identity of its own token, never another's;
\* what Authenticate made of a request is what it makes of that request
\* served alone; and the JWTManager is not changed.
C27_Isolation ==
    /\ jwt = NewJWTManager(JWT_SECRET)
    /\ \A r \in DOMAIN reqs :
        /\ reqs[r].handlerCalls > 0 => reqs[r].handlerCtx = OwnIdentity(reqs[r])
        /\ \/ reqs[r].ctx = reqs[r].ctx0
           \/ /\ ValidBearer(reqs[r].auth)
              /\ reqs[r].ctx = AuthContext(BearerClaims(reqs[r].auth))
        /\ AuthenticateAt(reqs[r], 1)
            => IF reqs[r].pos = 1
               THEN reqs[r] = ServedAlone(reqs[r])
               ELSE /\ ServedAlone(reqs[r]).pos = 2
                    /\ reqs[r].ctx = ServedAlone(reqs[r]).ctx

\* Two requests bearing the tokens of two users, served in turns: the first
\* passed Authenticate on a bypassed route, the second (its token expired)
\* was answered before the first one's handler ran.
C27_Witness ==
    /\ reqs[1].auth = Header("Bearer ", AccessA)
    /\ reqs[2].auth = Header("Bearer ", AccessB)
    /\ reqs[1].path = PHealth /\ reqs[1].pos = 2 /\ reqs[1].state = "running"
    /\ reqs[2].path = PExpenses /\ reqs[2].state = "responded"
    /\ reqs[2].resp.status = 401

-----------------------------------------------------------------------------
(* Properties of the context getters (SpecContext)                          *)

FromAuthenticate == ctxcall.given.from = "Authenticate"
Got(op) == ctxcall.call.op = op

\* C28: on the context Authenticate passes to the next handler, the getters
\* return, without error or panic, the subject id, the email and the role
\* "user" of the validated token.
C28_GettersReturnIdentity ==
    FromAuthenticate =>
        /\ Got("GetUserIDFromContext") =>
              /\ ~ctxcall.call.out.panic
              /\ ctxcall.call.out.err = ""
              /\ ctxcall.call.out.uuid = ctxcall.given.id
        /\ Got("GetUserEmailFromContext") =>
              /\ ~ctxcall.call.out.panic
              /\ ctxcall.call.out.err = ""
              /\ ctxcall.call.out.str = ctxcall.given.email
        /\ Got("GetUserRoleFromContext") =>
              /\ ~ctxcall.call.out.panic
              /\ ctxcall.call.out.err = ""
              /\ ctxcall.call.out.str = "user"

-----------------------------------------------------------------------------
(* Properties relating the password operations (SpecPassword)               *)

\* Sixteen bytes with both cases and nothing else: no digit, no special.
LettersOnly == <<"A", "a">> \o Fill(14)

\* C29: every password IsPasswordValid accepts has a GetPasswordStrength of
\* at least 90 and the label "Very Strong"; the converse fails: a password
\* can be labelled "Very Strong" and be rejected by IsPasswordValid.
C29_ValidIsVeryStrong ==
    /\ (Validated /\ pwres.err = NilError) =>
          /\ GetPasswordStrength(password) >= 90
          /\ GetPasswordStrengthLabel(password) = "Very Strong"
    /\ (pwres.op = "GetPasswordStrength" /\ pwres.score < 90) =>
          IsPasswordValid(password) # NilError
    /\ GetPasswordStrengthLabel(LettersOnly) = "Very Strong"
    /\ IsPasswordValid(LettersOnly) = ErrNoNumber

C29_Witness ==
    /\ Validated /\ pwres.err = NilError
    /\ ByteLen(password) = 8
    /\ GetPasswordStrength(password) = 90
    /\ GetPasswordStrengthLabel(password) = "Very Strong"

\* C30: the two password validators agree on every input:
\* utils.ValidatePassword(p) returns no error exactly when
\* PasswordManager.IsPasswordValid(p) returns none, the empty password and
\* those of 7, 8, 128 and 129 bytes included.
C30_ValidatorsAgree ==
    /\ pwres.op = "ValidatePassword" =>
          (pwres.err = NilError <=> IsPasswordValid(password) = NilError)
    /\ Validated =>
          (pwres.err = NilError <=>
                ValidatePassword(password) = NoValidationError)

C30_Witness ==
    /\ pwres.op = "ValidatePassword"
    /\ ByteLen(password) = 128
    /\ pwres.err = NilError
    /\ IsPasswordValid(password) = NilError

====
